---- MODULE Spec2Model ----
(***************************************************************************)
(* BlockBreaker (src/blockbreaker.cpp): the global BlockBreakerGame object *)
(* and the three GTK callbacks that drive it (timer, pointer motion,       *)
(* button press).                                                          *)
(*                                                                         *)
(* The program's doubles are modelled in fixed point: every length,        *)
(* coordinate and velocity is an integer number of 1/U pixels, angles are  *)
(* in 1/U radians, and sin/cos values are in 1/U.  Products are arranged   *)
(* so that no intermediate value leaves the 32-bit range.                  *)
(***************************************************************************)
EXTENDS Integers, Sequences, FiniteSets

\* ---------------------------------------------------------------- constants
WINDOW_WIDTH == 800
WINDOW_HEIGHT == 600
PADDLE_WIDTH == 100
PADDLE_HEIGHT == 20
BALL_RADIUS == 10
BLOCK_WIDTH == 80
BLOCK_HEIGHT == 30
BLOCK_ROWS == 5
BLOCK_COLS == 9
BLOCK_SPACING == 5
TOP_MARGIN == 50
SIDE_MARGIN == 20
BALL_SPEED == 5
\* lives(3) in the constructor's initialiser list
INITIAL_LIVES == 3
\* score += 10
SCORE_PER_BLOCK == 10

\* Fixed-point resolution of a double: units per pixel (and per radian, per 1.0).
U == 1000
\* M_PI in 1/U radians.
M_PI == 3142

\* ---------------------------------------------------------------- bounds
\* Number of simulation steps (ticks that move the ball) explored.
MaxTicks == 210

\* Pointer x coordinates delivered by motion events, in pixels: left of the
\* window, inside it, right of it.  A ball launched from 120 flies into the
\* gap between two blocks of the bottom row.
PointerXs == {-20, 120, 900}
\* Pointer x coordinates of the plays along the right-hand wall: a ball
\* launched from 137 comes down on that wall at the height of the paddle, and
\* 900 puts the paddle under it.
WallPointerXs == {137, 900}
\* Values of rand() % 100 drawn on a block hit.
RandVals == {0, 99}

\* ---------------------------------------------------------------- arithmetic
\* Division of doubles, rounded toward zero at the fixed-point resolution.
Div(a, b) ==
  IF b = 0 THEN 0
  ELSE IF (a >= 0) = (b > 0)
       THEN (IF a >= 0 THEN a ELSE -a) \div (IF b > 0 THEN b ELSE -b)
       ELSE -((IF a >= 0 THEN a ELSE -a) \div (IF b > 0 THEN b ELSE -b))

\* a * b for two fixed-point numbers.
Mul(a, b) == Div(a * b, U)

Abs(a) == IF a < 0 THEN -a ELSE a
Min(a, b) == IF a < b THEN a ELSE b
Max(a, b) == IF a > b THEN a ELSE b

RECURSIVE SqrtSearch(_, _, _)
SqrtSearch(n, lo, hi) ==
  IF lo >= hi THEN lo
  ELSE LET mid == (lo + hi + 1) \div 2
       IN IF mid * mid <= n THEN SqrtSearch(n, mid, hi)
                           ELSE SqrtSearch(n, lo, mid - 1)

\* std::sqrt of a non-negative integer, rounded down.
Sqrt(n) == SqrtSearch(n, 0, 46340)

\* std::sin and std::cos of an angle in 1/U radians, |a| <= M_PI/2, by their
\* Taylor series (terms up to a^7 and a^8).
Sin(a) ==
  LET a2 == Mul(a, a)
      a3 == Mul(a2, a)
      a5 == Mul(a3, a2)
      a7 == Mul(a5, a2)
  IN a - Div(a3, 6) + Div(a5, 120) - Div(a7, 5040)

Cos(a) ==
  LET a2 == Mul(a, a)
      a4 == Mul(a2, a2)
      a6 == Mul(a4, a2)
      a8 == Mul(a4, a4)
  IN U - Div(a2, 2) + Div(a4, 24) - Div(a6, 720) + Div(a8, 40320)

\* ---------------------------------------------------------------- state
VARIABLES
  game,   \* the global BlockBreakerGame
  ticks   \* simulation steps taken so far (bounds the exploration)

vars == <<game, ticks>>

NumBlocks == BLOCK_ROWS * BLOCK_COLS
BlockIds == 1 .. NumBlocks

\* Block i (1-based, row-major as emplaced by resetGame): its row and column.
BlockRow(i) == (i - 1) \div BLOCK_COLS
BlockCol(i) == (i - 1) % BLOCK_COLS
\* Top-left corner of block i.
BlockX(i) == (SIDE_MARGIN + BlockCol(i) * (BLOCK_WIDTH + BLOCK_SPACING)) * U
BlockY(i) == (TOP_MARGIN + BlockRow(i) * (BLOCK_HEIGHT + BLOCK_SPACING)) * U

\* What rand() % 70 returns to the Block constructors of one resetGame: three
\* draws a block, in the order the blocks are emplaced.  Once main has seeded
\* the generator from the clock its output is an input of the model.
ColorStreams ==
  {[k \in 1 .. 3 * NumBlocks |-> (a * k) % 70] : a \in {7, 11}}

\* The global game is constructed before main calls srand: its blocks take
\* the first draws of the unseeded generator (the C library's seed 1).
DefaultSeedStream ==
  <<43, 46, 37, 5, 43, 45, 66, 2, 29, 31, 2, 47, 20, 39, 13, 56, 10, 36, 2,
    16, 31, 28, 47, 9, 2, 40, 12, 13, 57, 5, 19, 42, 52, 68, 59, 37, 43,
    56, 51, 2, 29, 53, 61, 49, 34, 17, 48, 44, 65, 50, 3, 26, 21, 50, 36,
    23, 32, 60, 36, 31, 65, 55, 4, 47, 66, 5, 26, 39, 3, 7, 54, 45, 2, 45,
    24, 37, 4, 14, 23, 0, 7, 38, 26, 28, 18, 4, 63, 51, 64, 29, 12, 60, 26,
    28, 49, 22, 46, 6, 4, 49, 25, 0, 24, 28, 57, 61, 7, 62, 17, 42, 62, 36,
    11, 30, 6, 41, 35, 69, 34, 29, 40, 59, 31, 67, 17, 11, 31, 5, 29, 47,
    67, 66, 47, 33, 36>>

\* Block::Block, the colour: 0.3 + (rand() % 70) / 100.0 on each channel.
BlockColor(stream, i) ==
  [r |-> Div(3 * U, 10) + Div(stream[3 * i - 2] * U, 100),
   g |-> Div(3 * U, 10) + Div(stream[3 * i - 1] * U, 100),
   b |-> Div(3 * U, 10) + Div(stream[3 * i] * U, 100)]

\* Ball::Ball
NewBall(startX, startY) ==
  [x |-> startX, y |-> startY,
   dx |-> Mul(BALL_SPEED * U, Cos(Div(M_PI, 4))),
   dy |-> -Mul(BALL_SPEED * U, Sin(Div(M_PI, 4)))]

\* Paddle::Paddle (width and height are the constants PADDLE_WIDTH, PADDLE_HEIGHT)
NewPaddle(startX, startY) == [x |-> startX, y |-> startY]

\* A reset that costs a life.
resetGame_TakesLife(g, stream) ==
  [g EXCEPT !.ball = NewBall((WINDOW_WIDTH \div 2) * U, (WINDOW_HEIGHT - 50) * U),
            !.paddle = NewPaddle((WINDOW_WIDTH \div 2) * U, (WINDOW_HEIGHT - 30) * U),
            !.blocks = [i \in BlockIds |-> TRUE],
            !.colors = [i \in BlockIds |-> BlockColor(stream, i)],
            !.lives = g.lives - 1,
            !.gameRunning = FALSE,
            !.gameOver = FALSE]

\* BlockBreakerGame::resetGame: a new ball, a new paddle, a new full grid of
\* blocks, each with the colour its constructor draws from stream; running
\* and over cleared.  score and lives are not assigned.
resetGame(g, stream) ==
  [g EXCEPT !.ball = NewBall((WINDOW_WIDTH \div 2) * U, (WINDOW_HEIGHT - 50) * U),
            !.paddle = NewPaddle((WINDOW_WIDTH \div 2) * U, (WINDOW_HEIGHT - 30) * U),
            !.blocks = [i \in BlockIds |-> TRUE],
            !.colors = [i \in BlockIds |-> BlockColor(stream, i)],
            !.gameRunning = FALSE,
            !.gameOver = FALSE]

\* BlockBreakerGame::BlockBreakerGame, as the global game runs it.
NewGame ==
  resetGame([ball |-> NewBall(0, 0), paddle |-> NewPaddle(0, 0),
             blocks |-> [i \in BlockIds |-> TRUE],
             colors |-> [i \in BlockIds |-> BlockColor(DefaultSeedStream, i)],
             gameRunning |-> FALSE, gameOver |-> FALSE,
             score |-> 0, lives |-> INITIAL_LIVES], DefaultSeedStream)

\* BlockBreakerGame::start
start(g) == [g EXCEPT !.gameRunning = TRUE]

\* Paddle::move with the right-hand bound forgotten.
PaddleMove_NoRightClamp(p, newX) ==
  IF newX - (PADDLE_WIDTH \div 2) * U < 0
  THEN [p EXCEPT !.x = (PADDLE_WIDTH \div 2) * U]
  ELSE [p EXCEPT !.x = newX]

\* Paddle::move
PaddleMove(p, newX) ==
  IF newX - (PADDLE_WIDTH \div 2) * U < 0
  THEN [p EXCEPT !.x = (PADDLE_WIDTH \div 2) * U]
  ELSE IF newX + (PADDLE_WIDTH \div 2) * U > WINDOW_WIDTH * U
       THEN [p EXCEPT !.x = (WINDOW_WIDTH - PADDLE_WIDTH \div 2) * U]
       ELSE [p EXCEPT !.x = newX]

\* movePaddle that never carries the resting ball along.
movePaddle_NoFollow(g, x) == [g EXCEPT !.paddle = PaddleMove(g.paddle, x)]

\* movePaddle carrying the ball along in every state.
movePaddle_AlwaysFollow(g, x) ==
  LET p == PaddleMove(g.paddle, x)
  IN [g EXCEPT !.paddle = p, !.ball.x = p.x]

\* BlockBreakerGame::movePaddle
movePaddle(g, x) ==
  LET p == PaddleMove(g.paddle, x)
  IN IF ~g.gameRunning /\ ~g.gameOver
     THEN [g EXCEPT !.paddle = p, !.ball.x = p.x]
     ELSE [g EXCEPT !.paddle = p]

\* Ball::move
BallMove(b) == [b EXCEPT !.x = b.x + b.dx, !.y = b.y + b.dy]

\* The wall check with the right-hand wall forgotten.
WallReflect_LeftOnly(b) ==
  LET hitSide == b.x - BALL_RADIUS * U <= 0
      hitTop == b.y - BALL_RADIUS * U <= 0
  IN [b EXCEPT !.dx = IF hitSide THEN -b.dx ELSE b.dx,
               !.dy = IF hitTop THEN -b.dy ELSE b.dy]

\* update, "Check for collisions with walls": the velocity is reversed, the
\* position is left as it is.
WallReflect(b) ==
  LET hitSide == b.x - BALL_RADIUS * U <= 0 \/ b.x + BALL_RADIUS * U >= WINDOW_WIDTH * U
      hitTop == b.y - BALL_RADIUS * U <= 0
  IN [b EXCEPT !.dx = IF hitSide THEN -b.dx ELSE b.dx,
               !.dy = IF hitTop THEN -b.dy ELSE b.dy]

\* update, the condition of "Check for collision with paddle".
PaddleHit(b, p) ==
  /\ b.y + BALL_RADIUS * U >= p.y - (PADDLE_HEIGHT \div 2) * U
  /\ b.y - BALL_RADIUS * U <= p.y + (PADDLE_HEIGHT \div 2) * U
  /\ b.x >= p.x - (PADDLE_WIDTH \div 2) * U
  /\ b.x <= p.x + (PADDLE_WIDTH \div 2) * U

\* The paddle collision steering the ball sideways only.
PaddleReflect_KeepsDy(b, p) ==
  LET hitPos == Div((b.x - p.x) * U, (PADDLE_WIDTH \div 2) * U)
      angle == Mul(hitPos, Div(M_PI, 3))
      speed == Sqrt(b.dx * b.dx + b.dy * b.dy)
  IN [b EXCEPT !.dx = Mul(speed, Sin(angle))]

\* update, the body of the paddle collision: the angle follows the hit position.
PaddleReflect(b, p) ==
  LET hitPos == Div((b.x - p.x) * U, (PADDLE_WIDTH \div 2) * U)
      angle == Mul(hitPos, Div(M_PI, 3))
      upDy == -Abs(b.dy)
      speed == Sqrt(b.dx * b.dx + upDy * upDy)
  IN [b EXCEPT !.dx = Mul(speed, Sin(angle)),
               !.dy = -Mul(speed, Cos(angle))]

\* The closest point of block i to the ball.
ClosestX(b, i) == Max(BlockX(i), Min(b.x, BlockX(i) + BLOCK_WIDTH * U))
ClosestY(b, i) == Max(BlockY(i), Min(b.y, BlockY(i) + BLOCK_HEIGHT * U))

\* distanceSquared < radius * radius.  A distance of a radius or more on one
\* axis already decides the comparison, and is not squared.
Overlaps(b, i) ==
  LET distanceX == b.x - ClosestX(b, i)
      distanceY == b.y - ClosestY(b, i)
  IN /\ Abs(distanceX) < BALL_RADIUS * U
     /\ Abs(distanceY) < BALL_RADIUS * U
     /\ distanceX * distanceX + distanceY * distanceY
          < (BALL_RADIUS * U) * (BALL_RADIUS * U)

\* The loop over blocks keeping the last overlapping block instead of
\* breaking at the first.
FirstHit_Last(b, blocks) ==
  LET hits == {i \in BlockIds : blocks[i] /\ Overlaps(b, i)}
  IN IF hits = {} THEN 0
     ELSE CHOOSE i \in hits : \A j \in hits : i >= j

\* The block the loop over blocks stops at: the first active block, in the
\* order of the vector, that the ball overlaps; 0 when the loop runs to its end.
FirstHit(b, blocks) ==
  LET hits == {i \in BlockIds : blocks[i] /\ Overlaps(b, i)}
  IN IF hits = {} THEN 0
     ELSE CHOOSE i \in hits : \A j \in hits : i <= j

\* A time of collision: the quotient n / d of two doubles (d > 0), or INFINITY.
\* Times are compared as the quotients they are.
TimeOf(n, d) ==
  IF d > 0 THEN [inf |-> FALSE, n |-> n, d |-> d]
  ELSE [inf |-> FALSE, n |-> -n, d |-> -d]
Infinity == [inf |-> TRUE, n |-> 0, d |-> 1]
TimeLess(s, t) == ~s.inf /\ (t.inf \/ s.n * t.d < t.n * s.d)
TimeEq(s, t) ==
  IF s.inf \/ t.inf THEN s.inf /\ t.inf ELSE s.n * t.d = t.n * s.d
\* std::min(s, t)
TimeMin(s, t) == IF TimeLess(t, s) THEN t ELSE s

\* collisionSide as "Calculate time of collision with each side" sets it:
\* 0 = top, 1 = right, 2 = bottom, 3 = left.
TimeSide(b, i) ==
  LET ball_right == b.x + BALL_RADIUS * U
      ball_left == b.x - BALL_RADIUS * U
      ball_top == b.y - BALL_RADIUS * U
      ball_bottom == b.y + BALL_RADIUS * U
      block_right == BlockX(i) + BLOCK_WIDTH * U
      block_left == BlockX(i)
      block_top == BlockY(i)
      block_bottom == BlockY(i) + BLOCK_HEIGHT * U
      t_left == IF b.dx > 0 THEN TimeOf(block_left - ball_right, b.dx) ELSE Infinity
      t_right == IF b.dx < 0 THEN TimeOf(block_right - ball_left, b.dx) ELSE Infinity
      t_top == IF b.dy > 0 THEN TimeOf(block_top - ball_bottom, b.dy) ELSE Infinity
      t_bottom == IF b.dy < 0 THEN TimeOf(block_bottom - ball_top, b.dy) ELSE Infinity
      t == TimeMin(TimeMin(t_left, t_right), TimeMin(t_top, t_bottom))
  IN IF TimeEq(t, t_left) THEN 3
     ELSE IF TimeEq(t, t_right) THEN 1
     ELSE IF TimeEq(t, t_top) THEN 0
     ELSE 2

\* collisionSide with the "Alternative approach" left out.
CollisionSide_TimeBased(b, i) == TimeSide(b, i)

\* collisionSide as the block loop leaves it: set by the times of collision,
\* then set again, on every path, by where the closest point lies.
CollisionSide(b, i) ==
  LET timeBased == TimeSide(b, i)
  IN IF ClosestX(b, i) = BlockX(i) THEN 3
     ELSE IF ClosestX(b, i) = BlockX(i) + BLOCK_WIDTH * U THEN 1
     ELSE IF ClosestY(b, i) = BlockY(i) THEN 0
     ELSE 2

\* ((rand() % 100) / 500.0) - 0.1
Perturbation(rnd) == Div(rnd * U, 500) - Div(U, 10)

\* What the fixed-point operations of one reflection (Sqrt, Sin, Cos, Mul,
\* Div, each rounding to 1/U) may change the speed by: a hundredth of a pixel
\* per tick.  The doubles of the program round at 1e-16.
Rounding == U \div 100

\* std::sqrt(ball->dx * ball->dx + ball->dy * ball->dy)
Speed(b) == Sqrt(b.dx * b.dx + b.dy * b.dy)

\* The block collision without "Normalize speed to keep it consistent".
Normalize_None(b) == b

\* "Normalize speed to keep it consistent"
Normalize(b) ==
  LET speed == Speed(b)
  IN [b EXCEPT !.dx = Div(b.dx * (BALL_SPEED * U), speed),
               !.dy = Div(b.dy * (BALL_SPEED * U), speed)]

\* update, the switch on collisionSide: one component reversed, the other
\* perturbed.
Perturbed(b, side, rnd) ==
  IF side = 0 \/ side = 2
  THEN [b EXCEPT !.dy = -b.dy, !.dx = b.dx + Perturbation(rnd)]
  ELSE [b EXCEPT !.dx = -b.dx, !.dy = b.dy + Perturbation(rnd)]

\* update, the switch on collisionSide and the normalisation after it.
BlockReflect(b, side, rnd) == Normalize(Perturbed(b, side, rnd))

\* The block collision with the score left alone.
BlockCollide_NoScore(g, rnd) ==
  LET hit == FirstHit(g.ball, g.blocks)
  IN IF hit = 0 THEN g
     ELSE [g EXCEPT !.blocks[hit] = FALSE,
                    !.ball = BlockReflect(g.ball, CollisionSide(g.ball, hit), rnd)]

\* update, "Check for collisions with blocks".
BlockCollide(g, rnd) ==
  LET hit == FirstHit(g.ball, g.blocks)
  IN IF hit = 0 THEN g
     ELSE [g EXCEPT !.blocks[hit] = FALSE,
                    !.score = g.score + SCORE_PER_BLOCK,
                    !.ball = BlockReflect(g.ball, CollisionSide(g.ball, hit), rnd)]

\* The bottom exit ending the game only once lives is below zero.
BottomExit_BelowZero(g) ==
  IF g.ball.y - BALL_RADIUS * U > WINDOW_HEIGHT * U
  THEN IF g.lives - 1 < 0
       THEN [g EXCEPT !.lives = g.lives - 1, !.gameOver = TRUE]
       ELSE [g EXCEPT !.lives = g.lives - 1,
                      !.ball = NewBall(g.paddle.x, (WINDOW_HEIGHT - 50) * U),
                      !.gameRunning = FALSE]
  ELSE g

\* The bottom exit that leaves the game running after a lost life.
BottomExit_KeepsRunning(g) ==
  IF g.ball.y - BALL_RADIUS * U > WINDOW_HEIGHT * U
  THEN IF g.lives - 1 <= 0
       THEN [g EXCEPT !.lives = g.lives - 1, !.gameOver = TRUE]
       ELSE [g EXCEPT !.lives = g.lives - 1,
                      !.ball = NewBall(g.paddle.x, (WINDOW_HEIGHT - 50) * U)]
  ELSE g

\* update, "Check if ball falls below the screen".
BottomExit(g) ==
  IF g.ball.y - BALL_RADIUS * U > WINDOW_HEIGHT * U
  THEN IF g.lives - 1 <= 0
       THEN [g EXCEPT !.lives = g.lives - 1, !.gameOver = TRUE]
       ELSE [g EXCEPT !.lives = g.lives - 1,
                      !.ball = NewBall(g.paddle.x, (WINDOW_HEIGHT - 50) * U),
                      !.gameRunning = FALSE]
  ELSE g

\* A tick that does not look at the blocks.
VictoryCheck_Never(g) == g

\* update, "Check if all blocks are destroyed".
VictoryCheck(g) ==
  IF \A i \in BlockIds : ~g.blocks[i]
  THEN [g EXCEPT !.gameOver = TRUE]
  ELSE g

\* The paddle check run before the wall check.
Bounced_WallLast(g) ==
  LET moved == BallMove(g.ball)
  IN WallReflect(IF PaddleHit(moved, g.paddle)
                 THEN PaddleReflect(moved, g.paddle)
                 ELSE moved)

\* update up to the block loop: the ball moved, reflected by the walls and
\* then by the paddle.
Bounced(g) ==
  LET moved == WallReflect(BallMove(g.ball))
  IN IF PaddleHit(moved, g.paddle)
     THEN PaddleReflect(moved, g.paddle)
     ELSE moved

\* One step of the simulation, the early return of update aside.
Step(g, rnd) ==
  VictoryCheck(BottomExit(BlockCollide([g EXCEPT !.ball = Bounced(g)], rnd)))

\* update returning early only while the game is not running.
update_IgnoresOver(g, rnd) == IF ~g.gameRunning THEN g ELSE Step(g, rnd)

\* update returning early only once the game is over.
update_IgnoresRunning(g, rnd) == IF g.gameOver THEN g ELSE Step(g, rnd)

\* BlockBreakerGame::update; rnd is the value of rand() % 100 a block hit draws.
update(g, rnd) ==
  IF ~g.gameRunning \/ g.gameOver THEN g ELSE Step(g, rnd)

\* on_button_press
buttonPress(g, stream) ==
  IF ~g.gameRunning
  THEN start(IF g.gameOver THEN resetGame(g, stream) ELSE g)
  ELSE g

\* ---------------------------------------------------------------- behaviour
Init == game = NewGame /\ ticks = 0

\* The 60 Hz timer.  A step that moves the ball counts against MaxTicks.
on_timeout ==
  \E rnd \in RandVals :
    /\ (game.gameRunning /\ ~game.gameOver) => ticks < MaxTicks
    /\ game' = update(game, rnd)
    /\ ticks' = IF game.gameRunning /\ ~game.gameOver THEN ticks + 1 ELSE ticks

on_motion_notify ==
  \E px \in PointerXs :
    /\ game' = movePaddle(game, px * U)
    /\ UNCHANGED ticks

on_button_press ==
  \E stream \in ColorStreams :
    /\ game' = buttonPress(game, stream)
    /\ UNCHANGED ticks

Next == on_timeout \/ on_motion_notify \/ on_button_press

Spec == Init /\ [][Next]_vars

\* The end of a round.  The game waits for a click after a lost life (ball on
\* the paddle, as update leaves it), one or two lives are left, and all blocks
\* but the ones of EndgameActive have been destroyed and scored.  Each of these
\* states is reached from the constructed game by a play in which the pointer
\* steers the paddle under the ball (a few dozen paddle hits, then one or two
\* deliberate misses, then a pointer move to x = 400); the play is far longer
\* than MaxTicks, so the states are given here as initial states.
EndgameActive == {{45}, {41, 45}}
EndgameLives == {1, 2}

InitEndgame ==
  /\ \E act \in EndgameActive, l \in EndgameLives :
       game = [NewGame EXCEPT
                 !.blocks = [i \in BlockIds |-> i \in act],
                 !.score = SCORE_PER_BLOCK * (NumBlocks - Cardinality(act)),
                 !.lives = l]
  /\ ticks = 0

SpecEndgame == InitEndgame /\ [][Next]_vars

\* The same program with the pointer confined to WallPointerXs.
on_motion_notify_wall ==
  \E px \in WallPointerXs :
    /\ game' = movePaddle(game, px * U)
    /\ UNCHANGED ticks

NextWall == on_timeout \/ on_motion_notify_wall \/ on_button_press

SpecWall == Init /\ [][NextWall]_vars

\* ---------------------------------------------------------------- properties
Idle(g) == ~g.gameRunning /\ ~g.gameOver
AllActive(g) == \A i \in BlockIds : g.blocks[i]
NoneActive(g) == \A i \in BlockIds : ~g.blocks[i]
Inactive(g) == {i \in BlockIds : ~g.blocks[i]}

\* C1: the state resetGame() produces, from whatever state the game is in,
\* has score 0, three lives, running and over cleared, every block active,
\* the paddle centred at W/2 and the ball at rest at (W/2, H-50).
C1_ResetRestoresInitial ==
  \A stream \in ColorStreams :
  LET g == resetGame(game, stream)
  IN /\ g.score = 0
     /\ g.lives = INITIAL_LIVES
     /\ ~g.gameRunning
     /\ ~g.gameOver
     /\ AllActive(g)
     /\ g.paddle.x = (WINDOW_WIDTH \div 2) * U
     /\ g.ball.x = (WINDOW_WIDTH \div 2) * U
     /\ g.ball.y = (WINDOW_HEIGHT - 50) * U

C4_ThreeControllerStates ==
  <<game.gameRunning, game.gameOver>> \in
    {<<FALSE, FALSE>>, <<TRUE, FALSE>>, <<FALSE, TRUE>>}

\* C5: from every state in which the game is over, a click resets and
\* starts: right after it over is false, running is true and every block is
\* active.
C5_ClickRestartsFinishedGame ==
  game.gameOver =>
    \A stream \in ColorStreams :
      LET g == buttonPress(game, stream)
      IN ~g.gameOver /\ g.gameRunning /\ AllActive(g)

\* C6: the paddle centre stays within [PW/2, W - PW/2], whatever x the
\* pointer reports.
C6_PaddleInField ==
  /\ (PADDLE_WIDTH \div 2) * U <= game.paddle.x
  /\ game.paddle.x <= (WINDOW_WIDTH - PADDLE_WIDTH \div 2) * U

\* C6 witness: a pointer x right of the window has been clamped to W - PW/2
\* while the ball is in play.
C6_Witness ==
  /\ game.paddle.x = (WINDOW_WIDTH - PADDLE_WIDTH \div 2) * U
  /\ game.gameRunning

C8_IdleBallOnPaddle ==
  Idle(game) =>
    /\ game.ball.x = game.paddle.x
    /\ game.ball.y = (WINDOW_HEIGHT - 50) * U

\* C8 witness: Idle after a lost life, the paddle since moved to the left edge.
C8_Witness ==
  /\ Idle(game)
  /\ game.lives = INITIAL_LIVES - 1
  /\ game.paddle.x = (PADDLE_WIDTH \div 2) * U

\* C9: a tick while running is false or over is true changes nothing of the
\* game: ball, paddle, blocks, score, lives, running and over.
C9_TickNoOpUnlessPlaying ==
  (~game.gameRunning \/ game.gameOver) =>
    \A rnd \in RandVals : update(game, rnd) = game

\* C9 witness: the game is over with the ball below the paddle's top edge, a
\* state in which a tick that did run would move the ball.
C9_Witness ==
  /\ game.gameOver
  /\ game.ball.y > (WINDOW_HEIGHT - 30 - PADDLE_HEIGHT \div 2) * U

\* C10: a tick deactivates at most one block: the first active block, in
\* row-major order, that the moved ball overlaps; every other block keeps its
\* flag.
C10_OneBlockPerTick ==
  [][ticks' = ticks + 1 =>
       LET b == BallMove(game.ball)
           hits == {i \in BlockIds : game.blocks[i] /\ Overlaps(b, i)}
       IN IF hits = {}
          THEN game'.blocks = game.blocks
          ELSE \E first \in hits :
                 /\ \A j \in hits : first <= j
                 /\ game'.blocks = [game.blocks EXCEPT ![first] = FALSE]]_vars

\* C10 witness: after a tick the ball overlaps a block that was just
\* destroyed and a later block that is still active.
C10_Witness ==
  /\ game.gameRunning
  /\ \E i, j \in BlockIds :
       /\ i < j
       /\ ~game.blocks[i] /\ Overlaps(game.ball, i)
       /\ game.blocks[j] /\ Overlaps(game.ball, j)

\* The last life has been lost: the ball is left where it fell.
Lost(g) == g.gameOver /\ g.lives <= 0

\* C11 as claimed: between ticks the ball lies fully inside the field
\* horizontally and above its bottom edge (x - r >= 0, x + r <= W,
\* y + r <= H), the tick that loses the last life aside.
C11_BallInsideField ==
  ~Lost(game) =>
    /\ game.ball.x - BALL_RADIUS * U >= 0
    /\ game.ball.x + BALL_RADIUS * U <= WINDOW_WIDTH * U
    /\ game.ball.y + BALL_RADIUS * U <= WINDOW_HEIGHT * U

\* C11 as amended: between ticks the centre of the ball is at most one
\* step (BALL_SPEED) outside the field horizontally, and the ball has not
\* wholly passed the bottom edge (y - r <= H), the tick that loses the last
\* life aside.
C11_BallNearField ==
  /\ game.ball.x >= -(BALL_SPEED * U)
  /\ game.ball.x <= (WINDOW_WIDTH + BALL_SPEED) * U
  /\ ~Lost(game) => game.ball.y - BALL_RADIUS * U <= WINDOW_HEIGHT * U

\* C11 witness: in play, the ball reaches over the right-hand wall between
\* two ticks.
C11_Witness ==
  /\ game.gameRunning
  /\ game.ball.x + BALL_RADIUS * U > WINDOW_WIDTH * U

\* C12: a tick in which the moved ball is wholly below the bottom edge
\* (y - r > H) takes exactly one life; with a life left the game is Idle
\* again, the ball at (paddle.x, H-50) with the initial velocity (dx > 0,
\* dy < 0); with none left the game is over.  No other tick changes lives.
C12_LifeLostOnBottomExit ==
  [][ticks' = ticks + 1 =>
       LET b == BallMove(game.ball)
       IN IF b.y - BALL_RADIUS * U > WINDOW_HEIGHT * U
          THEN /\ game'.lives = game.lives - 1
               /\ game'.lives > 0 =>
                    /\ Idle(game')
                    /\ game'.ball.x = game'.paddle.x
                    /\ game'.ball.y = (WINDOW_HEIGHT - 50) * U
                    /\ game'.ball.dx = NewBall(0, 0).dx /\ game'.ball.dx > 0
                    /\ game'.ball.dy = NewBall(0, 0).dy /\ game'.ball.dy < 0
               /\ game'.lives = 0 => game'.gameOver
          ELSE game'.lives = game.lives]_vars

\* C12 witness: a life was lost in this play and one is left; the game waits
\* for a click.
C12_Witness == Idle(game) /\ ticks > 0 /\ game.lives = 1

\* C13: in every reachable state with no block active the game is over and
\* at least one life is left, which is what tells a win from a loss.
C13_ClearedIsWon ==
  NoneActive(game) => game.gameOver /\ game.lives > 0

\* C13 witness: the last block has been broken in this play.
C13_Witness == NoneActive(game) /\ ticks > 0 /\ game.score = SCORE_PER_BLOCK * NumBlocks

\* The tick about to run takes the paddle branch: the moved ball meets the
\* paddle's box.
PaddleFires(g) ==
  g.gameRunning /\ ~g.gameOver
    /\ PaddleHit(WallReflect(BallMove(g.ball)), g.paddle)

\* The tick about to run takes a wall branch.
WallFires(g) ==
  g.gameRunning /\ ~g.gameOver
    /\ WallReflect(BallMove(g.ball)) # BallMove(g.ball)

\* C14: after every tick in which the paddle branch fires the ball moves
\* upward (dy < 0), whatever the hit position and the incoming velocity, a
\* wall reflection in the same tick included.
C14_PaddleSendsBallUp ==
  [][(ticks' = ticks + 1 /\ PaddleFires(game)) => game'.ball.dy < 0]_vars

\* C14 witness: the ball is on the paddle's box and in the right-hand wall at
\* once, going up after the tick that brought it there.
C14_Witness ==
  /\ game.gameRunning /\ ticks > 0
  /\ PaddleHit(game.ball, game.paddle)
  /\ game.ball.x + BALL_RADIUS * U >= WINDOW_WIDTH * U
  /\ game.ball.dy < 0

\* C15 as claimed: a reset after a reset leaves the state the first reset
\* produced, the colours of the blocks included.
C15_ResetIdempotent ==
  \A s1 \in ColorStreams, s2 \in ColorStreams :
    resetGame(resetGame(game, s1), s2) = resetGame(game, s1)

\* C15 as amended: a reset after a reset leaves the ball, the paddle, the
\* blocks' active flags (their positions are fixed by the grid), score,
\* lives, running and over as the first reset produced them; only the
\* colours, drawn anew, may differ.
C15_ResetIdempotentButColors ==
  \A s1 \in ColorStreams, s2 \in ColorStreams :
    LET once == resetGame(game, s1)
        twice == resetGame(once, s2)
    IN [twice EXCEPT !.colors = once.colors] = once

\* C15 witness: a game that has been played (a block is gone) is reset; a
\* second reset draws other colours.
C15_Witness ==
  /\ ~AllActive(game)
  /\ \E s1 \in ColorStreams, s2 \in ColorStreams :
       LET once == resetGame(game, s1)
       IN AllActive(once) /\ resetGame(once, s2).colors # once.colors

C17_NeverHeadsIntoWall ==
  /\ game.ball.x - BALL_RADIUS * U <= 0 => game.ball.dx >= 0
  /\ game.ball.x + BALL_RADIUS * U >= WINDOW_WIDTH * U => game.ball.dx <= 0
  /\ game.ball.y - BALL_RADIUS * U <= 0 => game.ball.dy >= 0

\* The ball touches a side wall.
AtSideWall(b) ==
  b.x - BALL_RADIUS * U <= 0 \/ b.x + BALL_RADIUS * U >= WINDOW_WIDTH * U

Sign(a) == IF a > 0 THEN 1 ELSE IF a < 0 THEN -1 ELSE 0

\* C18: in a tick in which the moved ball touches a side wall and the paddle,
\* the paddle wins: the velocity after the tick is what the paddle alone
\* would have given, the wall's reversal leaving no trace, and dx has the
\* sign of ball.x - paddle.x.
C18_PaddleWinsOverWall ==
  [][LET moved == BallMove(game.ball)
     IN (/\ ticks' = ticks + 1
         /\ AtSideWall(moved)
         /\ PaddleHit(moved, game.paddle))
        => /\ game'.ball = PaddleReflect(moved, game.paddle)
           /\ Sign(game'.ball.dx) = Sign(moved.x - game.paddle.x)]_vars

\* C18 witness: on the paddle and in the right-hand wall at once, the ball
\* has been sent to the right, into the wall, by the paddle.
C18_Witness ==
  /\ game.gameRunning /\ ticks > 0
  /\ PaddleHit(game.ball, game.paddle)
  /\ AtSideWall(game.ball)
  /\ game.ball.x > game.paddle.x
  /\ game.ball.dx > 0

\* The closest point of block i to the ball lies on the block's left or
\* right edge.
OnSideEdge(b, i) ==
  \/ ClosestX(b, i) = BlockX(i)
  \/ ClosestX(b, i) = BlockX(i) + BLOCK_WIDTH * U

\* C19: on a block hit the closest point alone decides the axis: dx is
\* reversed (and dy perturbed) iff the closest point lies on the block's
\* left or right edge, otherwise dy is reversed (and dx perturbed); the side
\* the times of collision pointed at has no effect.
C19_NearestPointDecides ==
  [][ticks' = ticks + 1 =>
       LET b == Bounced(game)
           hit == FirstHit(b, game.blocks)
       IN hit # 0 =>
            \E rnd \in RandVals :
              game'.ball =
                Normalize(IF OnSideEdge(b, hit)
                          THEN [b EXCEPT !.dx = -b.dx,
                                         !.dy = b.dy + Perturbation(rnd)]
                          ELSE [b EXCEPT !.dy = -b.dy,
                                         !.dx = b.dx + Perturbation(rnd)])]_vars

\* C19 witness: the ball still overlaps the block it has just broken, and
\* the point of the block closest to it is a corner: left/right took
\* priority over top/bottom.
C19_Witness ==
  /\ game.gameRunning
  /\ \E i \in BlockIds :
       /\ ~game.blocks[i]
       /\ Overlaps(game.ball, i)
       /\ OnSideEdge(game.ball, i)
       /\ \/ ClosestY(game.ball, i) = BlockY(i)
          \/ ClosestY(game.ball, i) = BlockY(i) + BLOCK_HEIGHT * U

\* C20: a pointer move, in whatever state, changes nothing but paddle.x and,
\* when the game is Idle, ball.x: score, lives, running, over, the blocks,
\* ball.y and the velocity stay, and outside Idle ball.x stays too.
C20_PointerMovesPaddleOnly ==
  \A px \in PointerXs \cup WallPointerXs :
    LET g == movePaddle(game, px * U)
    IN /\ [g EXCEPT !.paddle.x = game.paddle.x, !.ball.x = game.ball.x] = game
       /\ ~Idle(game) => g.ball.x = game.ball.x

\* C20 witness: the ball was launched from the middle and has moved once;
\* the pointer has since taken the paddle to the left-hand wall.
C20_Witness ==
  /\ game.gameRunning /\ ticks = 1
  /\ game.ball.x = (WINDOW_WIDTH \div 2) * U + NewBall(0, 0).dx
  /\ game.paddle.x = (PADDLE_WIDTH \div 2) * U
====
